---- MODULE Spec2Model ----
(***************************************************************************)
(* A model of import_embargo/core.py: the allow-list prefix tree, the      *)
(* nearest-ancestor configuration lookup with its cache, the per-edge      *)
(* import/export/bypass checks and the aggregation and reporting of main.  *)
(*                                                                         *)
(* Python strings are sequences of one-character strings, so that          *)
(* str.split and str.replace are computed as Python computes them.  A      *)
(* pathlib.Path is the sequence of its components.                         *)
(***************************************************************************)
EXTENDS Integers, Sequences, FiniteSets, TLC

(* ------------------------------------------------------------------ *)
(* Bounds of the model                                                 *)
(* ------------------------------------------------------------------ *)

\* Longest allow-list drawn for the tree specification.
MaxEntries == 2

\* Most segments of a dotted path drawn for the tree specification.
MaxSegs == 2

(* ------------------------------------------------------------------ *)
(* Python strings                                                      *)
(* ------------------------------------------------------------------ *)

Dot == "."

Slash == "/"

\* str.split(sep): always at least one piece, empty pieces kept.
RECURSIVE split(_, _)
split(s, sep) ==
  IF \A i \in 1..Len(s) : s[i] # sep
    THEN <<s>>
    ELSE LET i == CHOOSE k \in 1..Len(s) :
                    s[k] = sep /\ \A j \in 1..(k - 1) : s[j] # sep
         IN  <<SubSeq(s, 1, i - 1)>> \o split(SubSeq(s, i + 1, Len(s)), sep)

\* str.replace(old, new): every non-overlapping occurrence, left to right.
RECURSIVE replace(_, _, _)
replace(s, old, new) ==
  IF Len(s) < Len(old)
    THEN s
    ELSE IF SubSeq(s, 1, Len(old)) = old
           THEN new \o replace(SubSeq(s, Len(old) + 1, Len(s)), old, new)
           ELSE <<Head(s)>> \o replace(Tail(s), old, new)

\* sep.join(parts)
RECURSIVE join(_, _)
join(parts, sep) ==
  IF parts = <<>> THEN <<>>
  ELSE IF Len(parts) = 1 THEN parts[1]
  ELSE parts[1] \o <<sep>> \o join(Tail(parts), sep)

\* str.endswith(suffix)
endswith(s, suffix) ==
  /\ Len(s) >= Len(suffix)
  /\ SubSeq(s, Len(s) - Len(suffix) + 1, Len(s)) = suffix

(* ------------------------------------------------------------------ *)
(* JSON values of a config field, and Config                           *)
(* ------------------------------------------------------------------ *)

\* None (a missing key read with .get, or a JSON null)
JNull == [kind |-> "null", items |-> <<>>]

\* a JSON number: neither None nor iterable
JNum == [kind |-> "number", items |-> <<>>]

\* a JSON array of strings
JArr(xs) == [kind |-> "array", items |-> xs]

Config(imp, exp, byp, path) ==
  [allowed_import_modules |-> imp,
   allowed_export_modules |-> exp,
   bypass_export_check_for_modules |-> byp,
   path |-> path]

ModuleTreeBuildingMode == {"IMPORT", "EXPORT", "BYPASS"}

(* ------------------------------------------------------------------ *)
(* The allow-list tree                                                 *)
(* ------------------------------------------------------------------ *)

\* {}
EmptyDict == <<>>

\* A bug: current_dict[s] = {} in place of current_dict.setdefault(s, {}).
RECURSIVE setdefault_chain_overwrite(_, _)
setdefault_chain_overwrite(current_dict, segs) ==
  IF segs = <<>>
    THEN current_dict
    ELSE LET s == Head(segs)
         IN  [k \in DOMAIN current_dict \cup {s} |->
                IF k = s THEN setdefault_chain_overwrite(EmptyDict, Tail(segs))
                         ELSE current_dict[k]]

\* for s in segs: current_dict = current_dict.setdefault(s, {})
\* The dicts are mutated in place; the result is the outer dict afterwards.
RECURSIVE setdefault_chain(_, _)
setdefault_chain(current_dict, segs) ==
  IF segs = <<>>
    THEN current_dict
    ELSE LET s     == Head(segs)
             child == IF s \in DOMAIN current_dict THEN current_dict[s]
                                                   ELSE EmptyDict
         IN  [k \in DOMAIN current_dict \cup {s} |->
                IF k = s THEN setdefault_chain(child, Tail(segs))
                         ELSE current_dict[k]]

\* for allowed_import in config_modules: ... (the loop of lines 163-166)
RECURSIVE insert_all(_, _)
insert_all(tree, config_modules) ==
  IF config_modules = <<>>
    THEN tree
    ELSE insert_all(setdefault_chain(tree, split(Head(config_modules), Dot)),
                    Tail(config_modules))

\* The list the mode selects.
config_modules_of(config, mode) ==
  CASE mode = "BYPASS" -> config.bypass_export_check_for_modules
    [] mode = "IMPORT" -> config.allowed_import_modules
    [] OTHER           -> config.allowed_export_modules

\* Iterating None or a number raises TypeError.
build_raises(config, mode) == config_modules_of(config, mode).kind # "array"

build_allowed_modules_tree(config, mode) ==
  insert_all(EmptyDict, config_modules_of(config, mode).items)

RECURSIVE walk(_, _)
walk(current_dict, names) ==
  IF names = <<>>
    THEN TRUE
    ELSE LET name == Head(names)
         IN  IF name \notin DOMAIN current_dict
               THEN FALSE
               ELSE IF current_dict[name] = EmptyDict
                      THEN TRUE
                      ELSE walk(current_dict[name], Tail(names))

is_operation_allowed(imported_module, allowed_modules_tree) ==
  walk(allowed_modules_tree, split(imported_module, Dot))

can_bypass_check(imported_from, bypass_modules_tree) ==
  is_operation_allowed(imported_from, bypass_modules_tree)

(* ------------------------------------------------------------------ *)
(* The source tree the run is given                                    *)
(* ------------------------------------------------------------------ *)

IGNORE_LIST ==
  { <<"_", "_", "p", "y", "c", "a", "c", "h", "e", "_", "_">>,
    <<".", "m", "y", "p", "y", "_", "c", "a", "c", "h", "e">>,
    <<".", "D", "S", "_", "S", "t", "o", "r", "e">>,
    <<".", "r", "u", "f", "f", "_", "c", "a", "c", "h", "e">> }

\* "__embargo__.json"
EMBARGO_FILE ==
  <<"_", "_", "e", "m", "b", "a", "r", "g", "o", "_", "_", ".", "j", "s", "o", "n">>

\* ".py"
PY_SUFFIX == <<".", "p", "y">>

\* app_root_path (line 354), a Path of one component
app_root == << <<"r">> >>

dir_a == app_root \o << <<"a">> >>

dir_a_s == dir_a \o << <<"s">> >>

dir_b == app_root \o << <<"b">> >>

file_pyk == dir_b \o << <<"p", "y", "k", ".", "p", "y">> >>

file_n == dir_a_s \o << <<"n", ".", "p", "y">> >>

file_md == app_root \o << <<"t", ".", "m", "d">> >>

\* Every entry under the app root: r/a/m.py, r/a/s/n.py, r/b/pyk.py, r/u.py,
\* r/t.md, and at the top level an ignored directory and a dotted one.
FsEntries ==
  { [path |-> dir_a, is_dir |-> TRUE],
    [path |-> dir_a \o << <<"m", ".", "p", "y">> >>, is_dir |-> FALSE],
    [path |-> dir_a_s, is_dir |-> TRUE],
    [path |-> file_n, is_dir |-> FALSE],
    [path |-> dir_b, is_dir |-> TRUE],
    [path |-> file_pyk, is_dir |-> FALSE],
    [path |-> app_root \o << <<"u", ".", "p", "y">> >>, is_dir |-> FALSE],
    [path |-> file_md, is_dir |-> FALSE],
    [path |-> app_root \o << <<"_", "_", "p", "y", "c", "a", "c", "h", "e", "_", "_">> >>,
     is_dir |-> TRUE],
    [path |-> app_root \o << <<"v", ".", "d">> >>, is_dir |-> TRUE] }

\* The directories a config file may live in.
Dirs == {app_root, dir_a, dir_a_s, dir_b}

\* main's list of files, as get_filenames_to_check returns it
filenames_to_check == <<file_pyk, file_md, file_n>>

\* str(path)
str(path) == join(path, Slash)

\* Path(s): the components of s, empty ones dropped
Path(s) == SelectSeq(split(s, Slash), LAMBDA c : c # <<>>)

\* path.parent
parent(path) == SubSeq(path, 1, Len(path) - 1)

\* path.name
name_of(path) == path[Len(path)]

\* path.iterdir()
iterdir(path) ==
  { e \in FsEntries : /\ Len(e.path) = Len(path) + 1
                      /\ SubSeq(e.path, 1, Len(path)) = path }

\* Python's None
PyNone == [is_none |-> TRUE]

Some(v) == [is_none |-> FALSE, value |-> v]

RECURSIVE get_package_tree(_)
get_package_tree(path) ==
  LET kept == { item \in iterdir(path) :
                  /\ name_of(item.path) \notin IGNORE_LIST
                  /\ \/ ~item.is_dir /\ endswith(name_of(item.path), PY_SUFFIX)
                     \/ item.is_dir /\ \A i \in 1..Len(name_of(item.path)) :
                                          name_of(item.path)[i] # Dot }
  IN  [n \in { name_of(item.path) : item \in kept } |->
         IF \E item \in kept : name_of(item.path) = n /\ item.is_dir
           THEN Some(get_package_tree(path \o <<n>>))
           ELSE PyNone]

\* An ast.ImportFrom node: "from <module> import ...", module None for
\* "from . import ...".
ImportFrom(module) == [has_module |-> TRUE, module |-> module]

ImportFromNone == [has_module |-> FALSE, module |-> <<>>]

get_local_import_nodes(import_nodes, local_package_tree) ==
  SelectSeq(import_nodes,
            LAMBDA node : /\ node.has_module
                          /\ split(node.module, Dot)[1]
                               \in DOMAIN local_package_tree)

build_path_from_import(module_import, root_path) ==
  Path(str(root_path) \o <<Slash>>
         \o str(Path(replace(module_import, <<Dot>>, <<Slash>>))))

relative_to(path, root_path) == SubSeq(path, Len(root_path) + 1, Len(path))

build_module_from_path(path, root_path) ==
  replace(replace(str(relative_to(path, root_path)), <<Slash>>, <<Dot>>),
          PY_SUFFIX, <<>>)

(* ------------------------------------------------------------------ *)
(* State                                                               *)
(* ------------------------------------------------------------------ *)

VARIABLES
  embargo,           \* the file system: directory -> its __embargo__.json
  source,            \* file -> the ImportFrom nodes get_import_nodes finds
  packages_tree,     \* main: get_package_tree(app_root_path)
  config_lookup,     \* main: the ConfigLookup cache, str(path) -> Config
  import_violations, \* main: the lines of every import violation
  export_violations, \* main: the lines of every export violation
  fi,                \* main: index of the file of "for file in"
  local_import_nodes,\* check_for_violations: the nodes it loops over
  ni,                \* check_for_violations: index of the node of "for node in"
  imp_violations,    \* check_for_violations: its own import_violations
  exp_violations,    \* check_for_violations: its own export_violations
  pc,                \* where the run is
  output,            \* the lines printed
  exit_code,         \* 0, -1 after exit(-1), 1 after an uncaught exception
  parses,            \* str(path) -> how often the file was read and parsed
  last_check,        \* the latest direction check and its resolution
  t_config,          \* the Config a tree is built from
  t_mode,            \* the ModuleTreeBuildingMode
  t_tree,            \* the tree built
  t_module,          \* the dotted path asked about
  t_allowed,         \* is_operation_allowed's answer
  t_pc               \* "start", "built", "queried", "off"

tvars == <<t_config, t_mode, t_tree, t_module, t_allowed, t_pc>>

fsvars == <<embargo, source, packages_tree>>

rvars == <<config_lookup, import_violations, export_violations, fi,
           local_import_nodes, ni, imp_violations, exp_violations, pc,
           output, exit_code, parses, last_check>>

vars == <<fsvars, rvars, tvars>>

(* ------------------------------------------------------------------ *)
(* Configuration lookup                                                *)
(* ------------------------------------------------------------------ *)

\* A key the JSON object does not have.
Missing == [kind |-> "missing", items |-> <<>>]

\* No __embargo__.json in the directory.
Absent == [kind |-> "absent", imp |-> Missing, exp |-> Missing, byp |-> Missing]

\* A file json.loads raises on.
Garbage == [kind |-> "garbage", imp |-> Missing, exp |-> Missing, byp |-> Missing]

\* A file holding a JSON object with these values (Missing: no such key).
Obj(imp, exp, byp) == [kind |-> "object", imp |-> imp, exp |-> exp, byp |-> byp]

\* potential_embargo_file.exists()
exists(potential_embargo_file) ==
  /\ parent(potential_embargo_file) \in DOMAIN embargo
  /\ embargo[parent(potential_embargo_file)].kind # "absent"

\* json_config.get(key, default)
json_get(field, default) == IF field.kind = "missing" THEN default ELSE field

\* dict with d[key] = value
dict_set(d, key, value) ==
  [k \in DOMAIN d \cup {key} |-> IF k = key THEN value ELSE d[k]]

\* What get_package_config hands back: the Config or None, the cache as it
\* leaves it, whether it raised, and the files it read and parsed.
Resolution(config, lookup, exc, read) ==
  [config |-> config, lookup |-> lookup, exc |-> exc, read |-> read]

\* A bug: a cached config of an ancestor is returned before the directory's
\* own, not yet cached, config file is looked for.
RECURSIVE get_package_config_cached_ancestor(_, _, _)
get_package_config_cached_ancestor(directory_path, root_path, lookup) ==
  LET potential_embargo_file == directory_path \o <<EMBARGO_FILE>>
      key == str(potential_embargo_file)
      json_config == embargo[directory_path]
      cached == { n \in Len(root_path)..Len(directory_path) :
                    str(SubSeq(directory_path, 1, n) \o <<EMBARGO_FILE>>)
                      \in DOMAIN lookup }
      nearest == CHOOSE n \in cached : \A m \in cached : m <= n
  IN  IF cached # {}
        THEN Resolution(
               Some(lookup[str(SubSeq(directory_path, 1, nearest)
                                 \o <<EMBARGO_FILE>>)]),
               lookup, FALSE, {})
      ELSE IF ~exists(potential_embargo_file)
        THEN IF directory_path = root_path
               THEN Resolution(PyNone, lookup, FALSE, {})
               ELSE get_package_config_cached_ancestor(
                      parent(directory_path), root_path, lookup)
      ELSE IF json_config.kind = "garbage"
        THEN Resolution(PyNone, lookup, TRUE, {key})
      ELSE LET config == Config(json_get(json_config.imp, JNull),
                                json_get(json_config.exp, JNull),
                                json_get(json_config.byp, JArr(<<>>)),
                                key)
           IN  Resolution(Some(config), dict_set(lookup, key, config),
                          FALSE, {key})

\* A bug: the cache is filled but never consulted.
RECURSIVE get_package_config_no_cache_check(_, _, _)
get_package_config_no_cache_check(directory_path, root_path, lookup) ==
  LET potential_embargo_file == directory_path \o <<EMBARGO_FILE>>
      key == str(potential_embargo_file)
      json_config == embargo[directory_path]
  IN  IF ~exists(potential_embargo_file)
        THEN IF directory_path = root_path
               THEN Resolution(PyNone, lookup, FALSE, {})
               ELSE get_package_config_no_cache_check(
                      parent(directory_path), root_path, lookup)
      ELSE IF json_config.kind = "garbage"
        THEN Resolution(PyNone, lookup, TRUE, {key})
      ELSE LET config == Config(json_get(json_config.imp, JNull),
                                json_get(json_config.exp, JNull),
                                json_get(json_config.byp, JArr(<<>>)),
                                key)
           IN  Resolution(Some(config), dict_set(lookup, key, config),
                          FALSE, {key})

RECURSIVE get_package_config(_, _, _)
get_package_config(directory_path, root_path, lookup) ==
  LET potential_embargo_file == directory_path \o <<EMBARGO_FILE>>
      key == str(potential_embargo_file)
      json_config == embargo[directory_path]
  IN  IF key \in DOMAIN lookup
        THEN Resolution(Some(lookup[key]), lookup, FALSE, {})
      ELSE IF ~exists(potential_embargo_file)
        THEN IF directory_path = root_path
               THEN Resolution(PyNone, lookup, FALSE, {})
               ELSE get_package_config(parent(directory_path), root_path, lookup)
      ELSE IF json_config.kind = "garbage"
        THEN Resolution(PyNone, lookup, TRUE, {key})
      ELSE LET config == Config(json_get(json_config.imp, JNull),
                                json_get(json_config.exp, JNull),
                                json_get(json_config.byp, JArr(<<>>)),
                                key)
           IN  Resolution(Some(config), dict_set(lookup, key, config),
                          FALSE, {key})

(* ------------------------------------------------------------------ *)
(* The two direction checks                                            *)
(* ------------------------------------------------------------------ *)

\* One string of a violations list or of the output.
Line(tag, text, list) == [tag |-> tag, text |-> text, list |-> list]

\* What a check hands back: its violations, the resolution it made and
\* whether it raised (in get_package_config or while building a tree).
Checked(violations, res, exc) ==
  [violations |-> violations, res |-> res, exc |-> exc]

\* A bug: "config.allowed_import_modules or []", a null list read as the
\* empty list, which allows nothing.
check_for_allowed_imports_null_as_empty(filename, app_root_path, lookup, node) ==
  LET res == get_package_config(parent(filename), app_root_path, lookup)
      config == res.config.value
      modules == IF config.allowed_import_modules.kind = "null"
                   THEN JArr(<<>>)
                   ELSE config.allowed_import_modules
      read == [config EXCEPT !.allowed_import_modules = modules]
  IN  IF res.exc THEN Checked(<<>>, res, TRUE)
      ELSE IF res.config.is_none THEN Checked(<<>>, res, FALSE)
      ELSE IF build_raises(read, "IMPORT") THEN Checked(<<>>, res, TRUE)
      ELSE IF ~node.has_module THEN Checked(<<>>, res, FALSE)
      ELSE IF is_operation_allowed(node.module,
                                   build_allowed_modules_tree(read, "IMPORT"))
        THEN Checked(<<>>, res, FALSE)
      ELSE Checked(
             << Line("violation",
                     str(filename) \o <<":", " ">> \o node.module, <<>>),
                Line("Allowed imports: ", <<>>, modules.items),
                Line("Config file: ", config.path \o <<"\n">>, <<>>) >>,
             res, FALSE)

check_for_allowed_imports(filename, app_root_path, lookup, node) ==
  LET res == get_package_config(parent(filename), app_root_path, lookup)
      config == res.config.value
  IN  IF res.exc THEN Checked(<<>>, res, TRUE)
      ELSE IF res.config.is_none THEN Checked(<<>>, res, FALSE)
      ELSE IF config.allowed_import_modules.kind = "null"
        THEN Checked(<<>>, res, FALSE)
      ELSE IF build_raises(config, "IMPORT") THEN Checked(<<>>, res, TRUE)
      ELSE IF ~node.has_module THEN Checked(<<>>, res, FALSE)
      ELSE IF is_operation_allowed(node.module,
                                   build_allowed_modules_tree(config, "IMPORT"))
        THEN Checked(<<>>, res, FALSE)
      ELSE Checked(
             << Line("violation",
                     str(filename) \o <<":", " ">> \o node.module, <<>>),
                Line("Allowed imports: ", <<>>,
                     config.allowed_import_modules.items),
                Line("Config file: ", config.path \o <<"\n">>, <<>>) >>,
             res, FALSE)

check_for_allowed_exports(importing_file, app_root_path, lookup, node) ==
  LET path_of_imported_module ==
        build_path_from_import(node.module, app_root_path)
      res == get_package_config(parent(path_of_imported_module),
                                app_root_path, lookup)
      config == res.config.value
  IN  IF res.exc THEN Checked(<<>>, res, TRUE)
      ELSE IF res.config.is_none THEN Checked(<<>>, res, FALSE)
      ELSE IF config.allowed_export_modules.kind = "null"
        THEN Checked(<<>>, res, FALSE)
      ELSE IF build_raises(config, "EXPORT") THEN Checked(<<>>, res, TRUE)
      ELSE IF build_raises(config, "BYPASS") THEN Checked(<<>>, res, TRUE)
      ELSE IF ~node.has_module THEN Checked(<<>>, res, FALSE)
      ELSE IF can_bypass_check(
                build_module_from_path(importing_file, app_root_path),
                build_allowed_modules_tree(config, "BYPASS"))
        THEN Checked(<<>>, res, FALSE)
      ELSE IF is_operation_allowed(node.module,
                                   build_allowed_modules_tree(config, "EXPORT"))
        THEN Checked(<<>>, res, FALSE)
      ELSE Checked(
             << Line("violation",
                     str(importing_file) \o <<":", " ">> \o node.module, <<>>),
                Line("Allowed exports: ", <<>>,
                     config.allowed_export_modules.items),
                Line("Config file: ", config.path \o <<"\n">>, <<>>) >>,
             res, FALSE)

(* ------------------------------------------------------------------ *)
(* The run: main and check_for_violations                              *)
(* ------------------------------------------------------------------ *)

\* Most import statements over all checked files.
MaxNodes == 2

\* get_import_nodes(filename): the ImportFrom nodes of the file, in order
get_import_nodes(filename) == source[filename]

\* A bug: "=" in place of "+=".
list_extend_assign(xs, ys) == ys

\* xs += ys
list_extend(xs, ys) == xs \o ys

\* A bug: only the import violations decide the exit status.
any_violation_imports_only(imports, exports) == Len(imports) > 0

\* len(import_violations) + len(export_violations) > 0
any_violation(imports, exports) == Len(imports) + Len(exports) > 0

\* if len(violations) > 0: print(header); for violation in violations: print
print_violations(out, header, violations) ==
  IF Len(violations) > 0
    THEN out \o <<Line(header, <<>>, <<>>)>> \o violations
    ELSE out

\* parses, with one more read of each file in read
count_reads(counts, read) ==
  [k \in DOMAIN counts \cup read |->
     (IF k \in DOMAIN counts THEN counts[k] ELSE 0)
       + (IF k \in read THEN 1 ELSE 0)]

\* The record of a direction check.
CheckRecord(direction, filename, node, directory, c) ==
  [direction |-> direction, filename |-> filename, node |-> node,
   directory |-> directory, config |-> c.res.config, resolve_exc |-> c.res.exc,
   exc |-> c.exc, recorded |-> c.violations # <<>>]

NoCheck ==
  [direction |-> "none", filename |-> <<>>, node |-> ImportFromNone,
   directory |-> <<>>, config |-> PyNone, resolve_exc |-> FALSE,
   exc |-> FALSE, recorded |-> FALSE]

\* The configs a directory may hold.
ConfigChoices(d) ==
  CASE d = app_root ->
         { Absent, Obj(JArr(<<>>), Missing, JNull) }
    [] d = dir_a ->
         { Absent, Garbage,
           Obj(Missing, JArr(<< <<"a", ".", "x">> >>),
               JArr(<< <<"b", ".", "p", "y", "k">>, <<"a", ".", "s">> >>)),
           Obj(JArr(<< <<"a">> >>), JArr(<< <<"a", ".", "m">> >>), Missing),
           Obj(JNull, JArr(<<>>), JNull),
           Obj(JNum, JNull, JArr(<<>>)) }
    [] d = dir_a_s ->
         { Absent,
           Obj(JArr(<< <<"a", ".", "s">> >>), JArr(<< <<"b">> >>), Missing) }
    [] OTHER ->
         { Absent, Obj(JArr(<< <<"a">> >>), JNum, Missing) }

\* The import statements a file may hold: os (third party), u (r/u.py),
\* a.m, a.s.n, and "from . import".
Nodes ==
  { ImportFrom(<<"o", "s">>), ImportFrom(<<"u">>),
    ImportFrom(<<"a", ".", "m">>), ImportFrom(<<"a", ".", "s", ".", "n">>),
    ImportFromNone }

Init ==
  /\ embargo \in { f \in [Dirs -> UNION { ConfigChoices(d) : d \in Dirs }] :
                     \A d \in Dirs : f[d] \in ConfigChoices(d) }
  /\ \E n1 \in 0..MaxNodes : \E n2 \in 0..(MaxNodes - n1) :
       \E s1 \in [1..n1 -> Nodes] : \E s2 \in [1..n2 -> Nodes] :
         source = [f \in {file_pyk, file_md, file_n} |->
                     IF f = file_pyk THEN s1 ELSE IF f = file_n THEN s2 ELSE <<>>]
  /\ packages_tree = get_package_tree(app_root)
  /\ config_lookup = <<>>
  /\ import_violations = <<>>
  /\ export_violations = <<>>
  /\ fi = 1
  /\ local_import_nodes = <<>>
  /\ ni = 1
  /\ imp_violations = <<>>
  /\ exp_violations = <<>>
  /\ pc = "main_loop"
  /\ output = <<>>
  /\ exit_code = 0
  /\ parses = <<>>
  /\ last_check = NoCheck
  /\ t_config = Config(JNull, JNull, JArr(<<>>), <<>>)
  /\ t_mode = "IMPORT"
  /\ t_tree = EmptyDict
  /\ t_module = <<>>
  /\ t_allowed = FALSE
  /\ t_pc = "off"

\* check_for_violations on a file that is no .py file: lines 304-306
SkipFile ==
  /\ pc = "main_loop"
  /\ fi <= Len(filenames_to_check)
  /\ ~endswith(str(filenames_to_check[fi]), PY_SUFFIX)
  /\ output' = output \o
       <<Line("Not checking file ", str(filenames_to_check[fi]), <<>>)>>
  /\ import_violations' = list_extend(import_violations, <<>>)
  /\ export_violations' = list_extend(export_violations, <<>>)
  /\ fi' = fi + 1
  /\ UNCHANGED <<fsvars, tvars, config_lookup, local_import_nodes, ni,
                 imp_violations, exp_violations, pc, exit_code, parses,
                 last_check>>

\* check_for_violations up to its loop: lines 302-309
OpenFile ==
  /\ pc = "main_loop"
  /\ fi <= Len(filenames_to_check)
  /\ endswith(str(filenames_to_check[fi]), PY_SUFFIX)
  /\ local_import_nodes' =
       get_local_import_nodes(get_import_nodes(filenames_to_check[fi]),
                              packages_tree)
  /\ ni' = 1
  /\ imp_violations' = <<>>
  /\ exp_violations' = <<>>
  /\ pc' = "check_imports"
  /\ UNCHANGED <<fsvars, tvars, config_lookup, import_violations,
                 export_violations, fi, output, exit_code, parses, last_check>>

\* The first half of the loop body: lines 315-320
CheckImports ==
  /\ pc = "check_imports"
  /\ ni <= Len(local_import_nodes)
  /\ LET filename == filenames_to_check[fi]
         node == local_import_nodes[ni]
         c == check_for_allowed_imports(filename, app_root, config_lookup, node)
     IN  /\ config_lookup' = c.res.lookup
         /\ parses' = count_reads(parses, c.res.read)
         /\ last_check' =
              CheckRecord("import", filename, node, parent(filename), c)
         /\ IF c.exc
              THEN /\ pc' = "aborted"
                   /\ exit_code' = 1
                   /\ UNCHANGED imp_violations
              ELSE /\ pc' = "check_exports"
                   /\ imp_violations' = list_extend(imp_violations, c.violations)
                   /\ UNCHANGED exit_code
  /\ UNCHANGED <<fsvars, tvars, import_violations, export_violations, fi,
                 local_import_nodes, ni, exp_violations, output>>

\* The second half of the loop body: lines 325-330
CheckExports ==
  /\ pc = "check_exports"
  /\ LET filename == filenames_to_check[fi]
         node == local_import_nodes[ni]
         c == check_for_allowed_exports(filename, app_root, config_lookup, node)
     IN  /\ config_lookup' = c.res.lookup
         /\ parses' = count_reads(parses, c.res.read)
         /\ last_check' =
              CheckRecord("export", filename, node,
                          parent(build_path_from_import(node.module, app_root)), c)
         /\ IF c.exc
              THEN /\ pc' = "aborted"
                   /\ exit_code' = 1
                   /\ UNCHANGED <<exp_violations, ni>>
              ELSE /\ pc' = "check_imports"
                   /\ exp_violations' = list_extend(exp_violations, c.violations)
                   /\ ni' = ni + 1
                   /\ UNCHANGED exit_code
  /\ UNCHANGED <<fsvars, tvars, import_violations, export_violations, fi,
                 local_import_nodes, imp_violations, output>>

\* check_for_violations returns and main adds what it found: lines 332, 372-373
ReturnViolations ==
  /\ pc = "check_imports"
  /\ ni > Len(local_import_nodes)
  /\ import_violations' = list_extend(import_violations, imp_violations)
  /\ export_violations' = list_extend(export_violations, exp_violations)
  /\ fi' = fi + 1
  /\ pc' = "main_loop"
  /\ UNCHANGED <<fsvars, tvars, config_lookup, local_import_nodes, ni,
                 imp_violations, exp_violations, output, exit_code, parses,
                 last_check>>

\* lines 375-378
PrintImportViolations ==
  /\ pc = "main_loop"
  /\ fi > Len(filenames_to_check)
  /\ output' = print_violations(output, "Import violations detected",
                                import_violations)
  /\ pc' = "print_exports"
  /\ UNCHANGED <<fsvars, tvars, config_lookup, import_violations,
                 export_violations, fi, local_import_nodes, ni, imp_violations,
                 exp_violations, exit_code, parses, last_check>>

\* lines 380-383
PrintExportViolations ==
  /\ pc = "print_exports"
  /\ output' = print_violations(output, "Export violations detected",
                                export_violations)
  /\ pc' = "exit_check"
  /\ UNCHANGED <<fsvars, tvars, config_lookup, import_violations,
                 export_violations, fi, local_import_nodes, ni, imp_violations,
                 exp_violations, exit_code, parses, last_check>>

\* lines 385-386: exit(-1), or main returns
ExitOrReturn ==
  /\ pc = "exit_check"
  /\ IF any_violation(import_violations, export_violations)
       THEN pc' = "exited" /\ exit_code' = -1
       ELSE pc' = "returned" /\ UNCHANGED exit_code
  /\ UNCHANGED <<fsvars, tvars, config_lookup, import_violations,
                 export_violations, fi, local_import_nodes, ni, imp_violations,
                 exp_violations, output, parses, last_check>>

Next ==
  \/ SkipFile
  \/ OpenFile
  \/ CheckImports
  \/ CheckExports
  \/ ReturnViolations
  \/ PrintImportViolations
  \/ PrintExportViolations
  \/ ExitOrReturn

Spec == Init /\ [][Next]_vars

(* ------------------------------------------------------------------ *)
(* The tree specification: build a tree from a drawn list, query it    *)
(* ------------------------------------------------------------------ *)

SegNames == { <<"a">>, <<"b">> }

\* The sequences over S of length lo..hi.
SeqsOf(S, lo, hi) == UNION { [1..n -> S] : n \in lo..hi }

DottedPaths == { join(segs, Dot) : segs \in SeqsOf(SegNames, 1, MaxSegs) }

AllowLists == SeqsOf(DottedPaths, 0, MaxEntries)

TreeInit ==
  /\ embargo = [d \in Dirs |-> Absent]
  /\ source = [f \in {file_pyk, file_md, file_n} |-> <<>>]
  /\ packages_tree = get_package_tree(app_root)
  /\ config_lookup = <<>>
  /\ import_violations = <<>>
  /\ export_violations = <<>>
  /\ fi = 1
  /\ local_import_nodes = <<>>
  /\ ni = 1
  /\ imp_violations = <<>>
  /\ exp_violations = <<>>
  /\ pc = "off"
  /\ output = <<>>
  /\ exit_code = 0
  /\ parses = <<>>
  /\ last_check = NoCheck
  /\ t_mode \in ModuleTreeBuildingMode
  /\ \E L \in AllowLists :
       t_config = CASE t_mode = "IMPORT" ->
                         Config(JArr(L), JNull, JArr(<<>>), <<>>)
                    [] t_mode = "EXPORT" ->
                         Config(JNull, JArr(L), JArr(<<>>), <<>>)
                    [] OTHER ->
                         Config(JNull, JNull, JArr(L), <<>>)
  /\ t_tree = EmptyDict
  /\ t_module = <<>>
  /\ t_allowed = FALSE
  /\ t_pc = "start"

BuildTree ==
  /\ t_pc = "start"
  /\ t_tree' = build_allowed_modules_tree(t_config, t_mode)
  /\ t_pc' = "built"
  /\ UNCHANGED <<fsvars, rvars, t_config, t_mode, t_module, t_allowed>>

QueryTree ==
  /\ t_pc = "built"
  /\ \E P \in DottedPaths :
       /\ t_module' = P
       /\ t_allowed' = is_operation_allowed(P, t_tree)
  /\ t_pc' = "queried"
  /\ UNCHANGED <<fsvars, rvars, t_config, t_mode, t_tree>>

TreeNext == BuildTree \/ QueryTree

TreeSpec == TreeInit /\ [][TreeNext]_vars

(* ------------------------------------------------------------------ *)
(* Claims about the tree (checked under TreeSpec)                      *)
(* ------------------------------------------------------------------ *)

\* The segments of a dotted path.
Segments(p) == split(p, Dot)

IsPrefix(a, b) == Len(a) <= Len(b) /\ SubSeq(b, 1, Len(a)) = a

\* The allow-list the tree under test is built from.
Entries == config_modules_of(t_config, t_mode).items

\* C1: is_operation_allowed(P, build_allowed_modules_tree(L)) is true if and
\* only if some entry of L is a segment-prefix of P (equality included) or P
\* is a segment-prefix of some entry of L.
C1_AllowedIffPrefixEitherWay ==
  t_pc = "queried" =>
    (t_allowed <=>
       \E i \in 1..Len(Entries) :
         \/ IsPrefix(Segments(Entries[i]), Segments(t_module))
         \/ IsPrefix(Segments(t_module), Segments(Entries[i])))

Reverse(L) == [i \in 1..Len(L) |-> L[Len(L) + 1 - i]]

Reorderings(L) ==
  { [i \in 1..Len(L) |-> L[p[i]]] :
      p \in { q \in [1..Len(L) -> 1..Len(L)] :
                \A i, j \in 1..Len(L) : q[i] = q[j] => i = j } }

\* t_config with the list its mode selects replaced by L.
WithEntries(L) ==
  CASE t_mode = "BYPASS" ->
         [t_config EXCEPT !.bypass_export_check_for_modules = JArr(L)]
    [] t_mode = "IMPORT" ->
         [t_config EXCEPT !.allowed_import_modules = JArr(L)]
    [] OTHER ->
         [t_config EXCEPT !.allowed_export_modules = JArr(L)]

\* Every chain of keys from the top of a tree.
RECURSIVE ChainsIn(_)
ChainsIn(tree) ==
  UNION { {<<k>>} \cup { <<k>> \o c : c \in ChainsIn(tree[k]) } : k \in DOMAIN tree }

\* Every non-empty segment prefix of every entry of L.
PrefixesOf(L) ==
  UNION { { SubSeq(Segments(L[i]), 1, n) : n \in 1..Len(Segments(L[i])) } :
            i \in 1..Len(L) }

\* C8: the tree built from L equals the tree built from reverse(L), from any
\* permutation of L and from L with its entries duplicated; common prefixes
\* are shared, so the tree's key chains are exactly the segment prefixes of
\* L's entries.
C8_BuildOrderIndependent ==
  t_pc \in {"built", "queried"} =>
    /\ \A M \in Reorderings(Entries)
                  \cup {Reverse(Entries), Entries \o Entries,
                        Entries \o Reverse(Entries)} :
         build_allowed_modules_tree(WithEntries(M), t_mode) = t_tree
    /\ ChainsIn(t_tree) = PrefixesOf(Entries)
    /\ ~build_raises(t_config, t_mode)

\* C8 witness: a tree built from two different entries that share their first
\* segment.
C8_Witness ==
  /\ t_pc = "built"
  /\ Len(Entries) = 2
  /\ Entries[1] # Entries[2]
  /\ Len(Segments(Entries[1])) = 2
  /\ Len(Segments(Entries[2])) = 2
  /\ Segments(Entries[1])[1] = Segments(Entries[2])[1]

(* ------------------------------------------------------------------ *)
(* Claims about a run (checked under Spec)                             *)
(* ------------------------------------------------------------------ *)

\* The directories on the chain D, parent(D), ..., app root that hold a
\* config file.
ChainWithConfig(D) ==
  { d \in { SubSeq(D, 1, n) : n \in Len(app_root)..Len(D) } :
      d \in DOMAIN embargo /\ embargo[d].kind # "absent" }

\* The nearest of them to D.
NearestDir(D) ==
  CHOOSE d \in ChainWithConfig(D) : \A e \in ChainWithConfig(D) : Len(e) <= Len(d)

\* The Config the config file of directory d defines.
ConfigDefinedIn(d) ==
  Config(json_get(embargo[d].imp, JNull), json_get(embargo[d].exp, JNull),
         json_get(embargo[d].byp, JArr(<<>>)), str(d \o <<EMBARGO_FILE>>))

\* C2: get_package_config(D, appRoot, cache), whatever earlier resolutions
\* left in the cache, returns the config defined in the nearest directory of
\* the chain D, parent(D), ..., appRoot that holds a config file, and None
\* exactly when no directory of the chain holds one (a nearest config file
\* that cannot be parsed raises instead of returning).
C2_NearestConfigWins ==
  last_check.direction # "none" =>
    LET D == last_check.directory
    IN  IF ChainWithConfig(D) = {}
          THEN ~last_check.resolve_exc /\ last_check.config.is_none
        ELSE IF embargo[NearestDir(D)].kind = "garbage"
          THEN last_check.resolve_exc
        ELSE /\ ~last_check.resolve_exc
             /\ ~last_check.config.is_none
             /\ last_check.config.value = ConfigDefinedIn(NearestDir(D))

\* C2 witness: r/a/s holds a config of its own, so do r/a and the root, the
\* root's is already cached by an earlier resolution, and the resolution for
\* r/a/s returns the config of r/a/s.
C2_Witness ==
  /\ last_check.direction # "none"
  /\ last_check.directory = dir_a_s
  /\ embargo[dir_a_s].kind = "object"
  /\ embargo[dir_a].kind = "object"
  /\ embargo[app_root].kind = "object"
  /\ str(app_root \o <<EMBARGO_FILE>>) \in DOMAIN config_lookup
  /\ ~last_check.config.is_none
  /\ last_check.config.value.path = str(dir_a_s \o <<EMBARGO_FILE>>)

\* The directory whose config governs the export of a dotted path: the
\* directory enclosing its presumed location under the app root.
ExportDir(module) ==
  app_root \o SubSeq(Segments(module), 1, Len(Segments(module)) - 1)

\* No allow-list is in force: no config on the chain of D, or the nearest
\* config's list is absent or null.
Unrestricted(D, field) ==
  \/ ChainWithConfig(D) = {}
  \/ /\ embargo[NearestDir(D)].kind = "object"
     /\ field[NearestDir(D)].kind \in {"missing", "null"}

\* C3: when the governing config of a direction is absent, or its allow-list
\* for that direction is null or absent, that direction's check records no
\* violation, whatever the imported path, the other list and the bypass list.
C3_NullListNeverViolates ==
  /\ last_check.direction = "import"
       /\ Unrestricted(parent(last_check.filename),
                       [d \in Dirs |-> embargo[d].imp])
       => ~last_check.recorded
  /\ last_check.direction = "export"
       /\ Unrestricted(ExportDir(last_check.node.module),
                       [d \in Dirs |-> embargo[d].exp])
       => ~last_check.recorded

\* C3 witness: r/a/s/n.py, governed by the config of r/a, which has no import
\* list but an export list and a bypass list, imports a.m and the import
\* check records nothing.
C3_Witness ==
  /\ last_check.direction = "import"
  /\ last_check.filename = file_n
  /\ last_check.node.module = <<"a", ".", "m">>
  /\ embargo[dir_a_s].kind = "absent"
  /\ embargo[dir_a].kind = "object"
  /\ embargo[dir_a].imp.kind = "missing"
  /\ embargo[dir_a].exp.kind = "array"
  /\ embargo[dir_a].byp.kind = "array"
  /\ ~last_check.exc
  /\ ~last_check.recorded

\* s without the suffix, when it ends with it.
StripSuffix(s, suffix) ==
  IF endswith(s, suffix) THEN SubSeq(s, 1, Len(s) - Len(suffix)) ELSE s

\* A file's qualified name: its path relative to the app root, separators
\* replaced by dots, extension stripped.
QualifiedName(filename) ==
  LET rel == SubSeq(filename, Len(app_root) + 1, Len(filename))
  IN  join([i \in 1..Len(rel) |->
              IF i = Len(rel) THEN StripSuffix(rel[i], PY_SUFFIX) ELSE rel[i]],
           Dot)

\* C4: under a governing config with a non-null export list, an importer
\* whose qualified name the bypass tree matches gets no export violation;
\* otherwise an export violation is recorded exactly when the tree of the
\* export list rejects the imported path.
C4_BypassByQualifiedName ==
  LET D == ExportDir(last_check.node.module)
      config == ConfigDefinedIn(NearestDir(D))
  IN  /\ last_check.direction = "export"
      /\ ChainWithConfig(D) # {}
      /\ embargo[NearestDir(D)].kind = "object"
      /\ config.allowed_export_modules.kind = "array"
      /\ config.bypass_export_check_for_modules.kind = "array"
      => (last_check.recorded <=>
            /\ ~is_operation_allowed(
                  QualifiedName(last_check.filename),
                  build_allowed_modules_tree(config, "BYPASS"))
            /\ ~is_operation_allowed(
                  last_check.node.module,
                  build_allowed_modules_tree(config, "EXPORT")))

\* The top-level packages and modules directly under the app root.
TopLevelNames ==
  { IF e.is_dir THEN name_of(e.path) ELSE StripSuffix(name_of(e.path), PY_SUFFIX) :
      e \in { x \in iterdir(app_root) :
                /\ name_of(x.path) \notin IGNORE_LIST
                /\ \/ x.is_dir /\ \A i \in 1..Len(name_of(x.path)) :
                                     name_of(x.path)[i] # Dot
                   \/ ~x.is_dir /\ endswith(name_of(x.path), PY_SUFFIX) } }

\* C5: an import is classified as local exactly when its first dotted segment
\* names a top-level package or module directly under the app root.
C5_LocalIffTopLevelName ==
  pc = "check_imports" =>
    \A i \in 1..Len(source[filenames_to_check[fi]]) :
      LET node == source[filenames_to_check[fi]][i]
      IN  node.has_module =>
            ((\E j \in 1..Len(local_import_nodes) : local_import_nodes[j] = node)
               <=> Segments(node.module)[1] \in TopLevelNames)

\* A config file that is structurally invalid: unparseable, or a recognized
\* field of an unexpected type (an allow-list that is no array, a bypass
\* list that is null or no array).
InvalidConfigFile(c) ==
  \/ c.kind = "garbage"
  \/ /\ c.kind = "object"
     /\ \/ c.imp.kind \notin {"missing", "null", "array"}
        \/ c.exp.kind \notin {"missing", "null", "array"}
        \/ c.byp.kind \notin {"missing", "array"}

\* An invalid config file was read during the run.
InvalidConfigReached ==
  \E d \in Dirs : /\ str(d \o <<EMBARGO_FILE>>) \in DOMAIN parses
                  /\ InvalidConfigFile(embargo[d])

\* C6: once a structurally invalid config file has been reached, the run
\* aborts: it prints no violation line and never completes.
C6_InvalidConfigAborts ==
  InvalidConfigReached =>
    /\ \A i \in 1..Len(output) : output[i].tag # "violation"
    /\ pc \notin {"exited", "returned"}

\* What main prints for its two lists.
Report(imports, exports) ==
  (IF imports # <<>>
     THEN <<Line("Import violations detected", <<>>, <<>>)>> \o imports
     ELSE <<>>)
  \o (IF exports # <<>>
        THEN <<Line("Export violations detected", <<>>, <<>>)>> \o exports
        ELSE <<>>)

\* C7: a completed run exits with a non-zero status if and only if a
\* violation was recorded, returns normally otherwise, and has printed both
\* lists in full before it exits.
C7_ExitIffViolation ==
  /\ pc = "exited" =>
       /\ exit_code # 0
       /\ import_violations \o export_violations # <<>>
       /\ SelectSeq(output, LAMBDA l : l.tag # "Not checking file ")
            = Report(import_violations, export_violations)
  /\ pc = "returned" =>
       /\ exit_code = 0
       /\ import_violations = <<>>
       /\ export_violations = <<>>

\* C7 witness: a run that exited after recording violations of both kinds.
C7_Witness ==
  /\ pc = "exited"
  /\ import_violations # <<>>
  /\ export_violations # <<>>

\* The local nodes of a file, as the run classifies them.
LocalNodes(filename) ==
  IF endswith(str(filename), PY_SUFFIX)
    THEN get_local_import_nodes(source[filename], packages_tree)
    ELSE <<>>

\* The records the first n local edges of a file yield, each edge judged on
\* its own with an empty cache.
RECURSIVE ImportRecords(_, _)
ImportRecords(filename, n) ==
  IF n = 0 THEN <<>>
  ELSE ImportRecords(filename, n - 1)
         \o check_for_allowed_imports(filename, app_root, <<>>,
                                      LocalNodes(filename)[n]).violations

RECURSIVE ExportRecords(_, _)
ExportRecords(filename, n) ==
  IF n = 0 THEN <<>>
  ELSE ExportRecords(filename, n - 1)
         \o check_for_allowed_exports(filename, app_root, <<>>,
                                      LocalNodes(filename)[n]).violations

\* The same over the first k files.
RECURSIVE ImportRecordsOfFiles(_)
ImportRecordsOfFiles(k) ==
  IF k = 0 THEN <<>>
  ELSE ImportRecordsOfFiles(k - 1)
         \o ImportRecords(filenames_to_check[k],
                          Len(LocalNodes(filenames_to_check[k])))

RECURSIVE ExportRecordsOfFiles(_)
ExportRecordsOfFiles(k) ==
  IF k = 0 THEN <<>>
  ELSE ExportRecordsOfFiles(k - 1)
         \o ExportRecords(filenames_to_check[k],
                          Len(LocalNodes(filenames_to_check[k])))

\* C9: in a run that does not abort, the two lists hold exactly one record
\* per local edge that fails the direction's check, in file order and then
\* statement order, without deduplication and without skipping an edge after
\* an earlier finding.
C9_EveryEdgeInOrder ==
  /\ pc \in {"main_loop", "print_exports", "exit_check", "exited", "returned"} =>
       /\ import_violations = ImportRecordsOfFiles(fi - 1)
       /\ export_violations = ExportRecordsOfFiles(fi - 1)
  /\ pc = "check_imports" =>
       /\ imp_violations = ImportRecords(filenames_to_check[fi], ni - 1)
       /\ exp_violations = ExportRecords(filenames_to_check[fi], ni - 1)
  /\ pc = "check_exports" =>
       /\ imp_violations = ImportRecords(filenames_to_check[fi], ni)
       /\ exp_violations = ExportRecords(filenames_to_check[fi], ni - 1)

\* C9 witness: a completed run with two import records of different edges, the
\* first edge also in the export list.
C9_Witness ==
  /\ pc = "exited"
  /\ Len(import_violations) = 6
  /\ Len(export_violations) >= 3
  /\ import_violations[1].text # import_violations[4].text
  /\ export_violations[1].text = import_violations[1].text

\* Every entry is keyed by the location of an existing config file, holds the
\* Config defined there, and no location was parsed more than once.
C10_Entries ==
  /\ \A k \in DOMAIN config_lookup :
       /\ config_lookup[k].path = k
       /\ \E d \in Dirs : /\ k = str(d \o <<EMBARGO_FILE>>)
                          /\ embargo[d].kind = "object"
                          /\ config_lookup[k] = ConfigDefinedIn(d)
       /\ k \in DOMAIN parses
  /\ \A k \in DOMAIN parses : parses[k] <= 1

\* No entry is removed or replaced, and a resolution that raises or returns
\* None leaves the cache as it was.
C10_Step ==
  /\ \A k \in DOMAIN config_lookup :
       k \in DOMAIN config_lookup' /\ config_lookup'[k] = config_lookup[k]
  /\ (last_check'.resolve_exc \/ last_check'.config.is_none)
       => config_lookup' = config_lookup

\* C10: after any sequence of get_package_config calls on one cache, every
\* entry is keyed by an existing config file's location and holds the Config
\* defined there, each location is parsed and inserted at most once, no entry
\* is ever removed or replaced, and a failed or None resolution leaves the
\* cache unchanged.
C10_CacheDiscipline == []C10_Entries /\ [][C10_Step]_vars

\* C10 witness: two configs are cached and the import check of a file's second
\* node found the file's config in the cache.
C10_Witness ==
  /\ pc = "check_exports"
  /\ ni = 2
  /\ last_check.direction = "import"
  /\ ~last_check.config.is_none
  /\ Cardinality(DOMAIN config_lookup) = 2
  /\ \A k \in DOMAIN parses : parses[k] = 1

====
